---- MODULE Spec2Model ----
(***************************************************************************)
(* Model of data_generator_script.py: the synthetic generator of a         *)
(* location table and of a vehicle table for routing test fixtures.        *)
(*                                                                         *)
(* Conventions.                                                            *)
(*  - A Python str is a sequence of one-character strings, so that         *)
(*    formatting (f"L{i:03d}", strftime, f"{h:02d}:00") is computed and    *)
(*    has to be parsed back by whoever reads the field.                    *)
(*  - random is a generator with a state that every draw advances.  The    *)
(*    Mersenne Twister of CPython is replaced by a 16-bit linear           *)
(*    congruential generator; getrandbits, random, _randbelow, randint     *)
(*    and choice are built on it the way Lib/random.py builds them.        *)
(*  - random.random() returns a multiple of 2^-53 in CPython and a         *)
(*    multiple of 2^-RandBits here; it is carried as the integer u with    *)
(*    value u / 2^RandBits.                                                *)
(*  - The clock counts ticks, TicksPerDay of them a day; a date is a       *)
(*    proleptic Gregorian ordinal as in datetime.date.                     *)
(*  - Urgency_Score is carried in hundredths; the centre coordinates are   *)
(*    carried in units of 1e-7 degree and rounded to units of 1e-6.        *)
(*  - The sampled point stays a term over its arguments: the floating      *)
(*    point trigonometry of _random_point_within_radius is not computed.   *)
(***************************************************************************)
EXTENDS Integers, Sequences, FiniteSets, TLC

\* ------------------------------------------------------------------ bounds
MaxSeed == 40
MaxRecords == 4
MaxRows == 10
MaxDepots == 2
MaxTicks == 1
RandBits == 8
TicksPerDay == 2

\* ------------------------------------------------------- module constants
\* 0.10 as a fraction
DEPOT_PROBABILITY == [num |-> 1, den |-> 10]
PRODUCT_TYPES == <<"Leafy", "Dairy", "Herbs", "Meat", "Fruit">>
PACKAGING_TYPES == <<"Crate", "Box", "Pallet">>
CONTAMINATION_GROUPS == <<"A", "B", "C">>
HANDLING_NOTES == <<"Fragile", "Keep Upright", "None">>
MIN_CAPACITY == 100
MAX_CAPACITY == 500
HOURS_IN_DAY == 24
TW_CHOICES == <<"morning", "afternoon", "evening">>
VEHICLE_BANDS == << <<-2, 10>>, <<0, 8>>, <<-5, 4>> >>

\* ------------------------------------------------------------- arithmetic
RECURSIVE Pow2(_)
Pow2(n) == IF n = 0 THEN 1 ELSE 2 * Pow2(n - 1)

RECURSIVE BitLength(_)
BitLength(n) == IF n = 0 THEN 0 ELSE 1 + BitLength(n \div 2)

\* round(num / den) to the nearest integer, ties to the even one (den > 0)
RoundHalfEven(num, den) ==
  LET q == num \div den
      r == num % den
  IN  IF 2 * r > den \/ (2 * r = den /\ q % 2 = 1) THEN q + 1 ELSE q

\* ------------------------------------------------------------ the generator
GetRandBits(k, g) ==
  LET g1 == (25173 * g + 13849) % 65536
  IN  [v |-> g1 \div Pow2(16 - k), g |-> g1]

\* random.random(): u with value u / 2^RandBits, in [0, 1)
Random(g) == GetRandBits(RandBits, g)

\* Random._randbelow_with_getrandbits(n)
RECURSIVE RandBelowLoop(_, _, _)
RandBelowLoop(n, k, d) ==
  IF d.v >= n THEN RandBelowLoop(n, k, GetRandBits(k, d.g)) ELSE d

RandBelow(n, g) ==
  LET k == BitLength(n)
  IN  RandBelowLoop(n, k, GetRandBits(k, g))

\* random.randint(a, b) = a + _randbelow(b - a + 1)
RandInt(a, b, g) ==
  LET d == RandBelow(b - a + 1, g)
  IN  [v |-> a + d.v, g |-> d.g]

\* random.choice(seq) = seq[_randbelow(len(seq))]
Choice(seq, g) ==
  LET d == RandBelow(Len(seq), g)
  IN  [v |-> seq[d.v + 1], g |-> d.g]

\* ----------------------------------------------------------- str formatting
Digit(d) == <<"0", "1", "2", "3", "4", "5", "6", "7", "8", "9">>[d + 1]

RECURSIVE DigitsOf(_)
DigitsOf(n) ==
  IF n < 10 THEN <<Digit(n)>> ELSE DigitsOf(n \div 10) \o <<Digit(n % 10)>>

RECURSIVE ZeroPad(_, _)
ZeroPad(s, w) == IF Len(s) >= w THEN s ELSE ZeroPad(<<"0">> \o s, w)

\* format(n, "0{w}d") for n >= 0
FormatD(n, w) == ZeroPad(DigitsOf(n), w)

\* the identifier padded to 2 digits
LocIdTwoDigits(i) == <<"L">> \o FormatD(i, 2)

\* f"L{i:03d}"
LocId(i) == <<"L">> \o FormatD(i, 3)

\* f"V{i:03d}"
VehId(i) == <<"V">> \o FormatD(i, 3)

\* f"{h:02d}:00"
HourStr(h) == FormatD(h, 2) \o <<":", "0", "0">>

\* ------------------------------------------------------------------- dates
IsLeap(y) == y % 4 = 0 /\ (y % 100 # 0 \/ y % 400 = 0)

DaysInMonth(y, m) ==
  IF m = 2 THEN (IF IsLeap(y) THEN 29 ELSE 28)
  ELSE IF m \in {4, 6, 9, 11} THEN 30 ELSE 31

DaysBeforeYear(y) ==
  LET p == y - 1 IN p * 365 + p \div 4 - p \div 100 + p \div 400

RECURSIVE DaysBeforeMonth(_, _)
DaysBeforeMonth(y, m) ==
  IF m = 1 THEN 0 ELSE DaysBeforeMonth(y, m - 1) + DaysInMonth(y, m - 1)

\* datetime.date(y, m, d).toordinal()
Ymd2Ord(y, m, d) == DaysBeforeYear(y) + DaysBeforeMonth(y, m) + d

\* datetime._ord2ymd
Ord2Ymd(ord) ==
  LET n0 == ord - 1
      n400 == n0 \div 146097
      r400 == n0 % 146097
      n100 == r400 \div 36524
      r100 == r400 % 36524
      n4 == r100 \div 1461
      r4 == r100 % 1461
      n1 == r4 \div 365
      n == r4 % 365
      year == n400 * 400 + 1 + n100 * 100 + n4 * 4 + n1
  IN  IF n1 = 4 \/ n100 = 4
        THEN [y |-> year - 1, m |-> 12, d |-> 31]
        ELSE LET m0 == (n + 50) \div 32
                 pre == DaysBeforeMonth(year, m0)
                 m == IF pre > n THEN m0 - 1 ELSE m0
                 pr == IF pre > n THEN pre - DaysInMonth(year, m0 - 1) ELSE pre
             IN  [y |-> year, m |-> m, d |-> n - pr + 1]

\* date.strftime("%m/%d/%Y")
StrfTime(ord) ==
  LET t == Ord2Ymd(ord)
  IN  FormatD(t.m, 2) \o <<"/">> \o FormatD(t.d, 2) \o <<"/">> \o FormatD(t.y, 4)

\* the instant rounded to the nearest day instead of cut to its day
TodayRounded(t) == (t + 1) \div TicksPerDay

\* datetime.now().date(): the calendar day the instant falls in
Today(t) == t \div TicksPerDay

\* ------------------------------------------------ binary64 multiplication
\* A binary64 value is sig * 2^exp with sig a sequence of bits, least
\* significant first.
RECURSIVE Rep(_, _)
Rep(s, n) == IF n = 0 THEN <<>> ELSE s \o Rep(s, n - 1)

\* 0.1 * 3 = 0.30000000000000004: 0x13333333333334 * 2^-54
F030FromTenths ==
  [sig |-> <<0, 0, 1, 0>> \o Rep(<<1, 1, 0, 0>>, 12) \o <<1>>, exp |-> 0 - 54]

\* the literal 0.30: 0x13333333333333 * 2^-54
F030 == [sig |-> Rep(<<1, 1, 0, 0>>, 13) \o <<1>>, exp |-> 0 - 54]

RECURSIVE MulBits(_, _, _)
MulBits(bits, n, carry) ==
  IF bits = <<>>
    THEN (IF carry = 0 THEN <<>>
          ELSE <<carry % 2>> \o MulBits(<<>>, n, carry \div 2))
    ELSE LET t == Head(bits) * n + carry
         IN  <<t % 2>> \o MulBits(Tail(bits), n, t \div 2)

RECURSIVE StripHigh(_)
StripHigh(bits) ==
  IF bits # <<>> /\ bits[Len(bits)] = 0
    THEN StripHigh(SubSeq(bits, 1, Len(bits) - 1)) ELSE bits

RECURSIVE IncBits(_)
IncBits(bits) ==
  IF bits = <<>> THEN <<1>>
  ELSE IF Head(bits) = 0 THEN <<1>> \o Tail(bits)
  ELSE <<0>> \o IncBits(Tail(bits))

RECURSIVE BitsToNat(_)
BitsToNat(bits) ==
  IF bits = <<>> THEN 0 ELSE Head(bits) + 2 * BitsToNat(Tail(bits))

\* f * n in binary64: the exact product rounded to 53 bits, ties to even
FMulInt(f, n) ==
  LET p == StripHigh(MulBits(f.sig, n, 0))
      d == Len(p) - 53
  IN  IF d <= 0 THEN [sig |-> p, exp |-> f.exp]
      ELSE LET kept == SubSeq(p, d + 1, Len(p))
               up == /\ p[d] = 1
                     /\ \/ kept[1] = 1
                        \/ \E j \in 1..(d - 1) : p[j] = 1
           IN  [sig |-> IF up THEN IncBits(kept) ELSE kept, exp |-> f.exp + d]

\* math.ceil of a non-negative binary64 value
Ceil(f) ==
  IF f.exp >= 0 THEN BitsToNat(f.sig) * Pow2(f.exp)
  ELSE LET k == 0 - f.exp
           n == Len(f.sig)
           lo == SubSeq(f.sig, 1, IF k < n THEN k ELSE n)
           hi == SubSeq(f.sig, k + 1, n)
       IN  BitsToNat(hi) + (IF \E j \in 1..Len(lo) : lo[j] = 1 THEN 1 ELSE 0)

\* num_vehicles = math.ceil(0.30 * total_locations), at least 1
NumVehicles(total) ==
  LET c == Ceil(FMulInt(F030, total))
  IN  IF c < 1 THEN 1 ELSE c

\* ------------------------------------------------ _make_customer_fields
TempBand(ptype) ==
  IF ptype = "Leafy" THEN <<1, 7>>
  ELSE IF ptype = "Dairy" THEN <<0, 4>>
  ELSE IF ptype = "Herbs" THEN <<5, 10>>
  ELSE IF ptype = "Meat" THEN <<0 - 2, 0>>
  ELSE <<4, 8>>

TimeWindow(tw) ==
  IF tw = "morning" THEN <<HourStr(8), HourStr(12)>>
  ELSE IF tw = "afternoon" THEN <<HourStr(12), HourStr(17)>>
  ELSE <<HourStr(17), HourStr(20)>>

\* the number of values random.random() takes
RandRange == Pow2(RandBits)

\* the draw cut to 2 decimals instead of rounded
UrgencyTruncated(u) == (100 * u) \div RandRange

\* round(random.random(), 2), in hundredths
Urgency(u) == RoundHalfEven(100 * u, RandRange)

\* ripeness_offset = random.randint(0, 3)
RipenessOffset(g) == RandInt(0, 3, g)

\* an expiration offset that may be 0 or 1
ExpOffsetFromZero(g) == RandInt(0, 7, g)

\* exp_offset = random.randint(2, 7)
ExpOffset(g) == RandInt(2, 7, g)

\* the bundle drawn at instant t from generator state g, and the state after
MakeCustomerFields(g, t) ==
  LET ptype == Choice(PRODUCT_TYPES, g)
      band == TempBand(ptype.v)
      demand == RandInt(1, 25, ptype.g)
      today == Today(t)
      ripeness_offset == RipenessOffset(demand.g)
      ripeness_date == today + ripeness_offset.v
      exp_offset == ExpOffset(ripeness_offset.g)
      exp_date == ripeness_date + exp_offset.v
      packaging == Choice(PACKAGING_TYPES, exp_offset.g)
      contam_grp == Choice(CONTAMINATION_GROUPS, packaging.g)
      handling == Choice(HANDLING_NOTES, contam_grp.g)
      urgency == Random(handling.g)
      tw_choice == Choice(TW_CHOICES, urgency.g)
      tw == TimeWindow(tw_choice.v)
  IN  [g |-> tw_choice.g,
       v |-> [Demand_unit |-> demand.v,
              Product_Type |-> ptype.v,
              Temp_Min |-> band[1],
              Temp_Max |-> band[2],
              Ripeness_Date |-> StrfTime(ripeness_date),
              Expiration_Date |-> StrfTime(exp_date),
              Packaging_Type |-> packaging.v,
              Contamination_Group |-> contam_grp.v,
              Handling_Notes |-> handling.v,
              Urgency_Score |-> Urgency(urgency.v),
              Time_Window_Start |-> tw[1],
              Time_Window_End |-> tw[2]]]

\* ------------------------------------------ _random_point_within_radius
\* u = random.random(); bearing = random.uniform(0, 2 * pi), which is one
\* more random.random().  The result is the pair of terms lat_new, lon_new
\* over (lat_center, lon_center, radius_miles, u, bearing).
RandomPointWithinRadius(lat_center, lon_center, radius_miles, g) ==
  LET u == Random(g)
      bearing == Random(u.g)
      at == [lat_center |-> lat_center, lon_center |-> lon_center,
             radius_miles |-> radius_miles, u |-> u.v, bearing |-> bearing.v]
  IN  [g |-> bearing.g,
       lat |-> [term |-> "lat_new", at |-> at],
       lon |-> [term |-> "lon_new", at |-> at]]

\* the coordinate cut to 6 decimals instead of rounded
Round6Truncate(x) == x \div 10

\* round(x, 6) of a coordinate given in units of 1e-7, in units of 1e-6
Round6(x) == RoundHalfEven(x, 10)

\* random.random() < DEPOT_PROBABILITY.  The binary64 0.10 lies above 1/10
\* by less than 2^-53 and no u / 2^k equals 1/10, so the comparison with the
\* fraction decides the same way.
IsDepot(u) ==
  u * DEPOT_PROBABILITY.den < DEPOT_PROBABILITY.num * RandRange

\* one row of the location table
LocationRow(loc_id, lat, lon, flag, f) ==
  [Location_ID |-> loc_id, Latitude |-> lat, Longitude |-> lon,
   Depot_Flag |-> flag,
   Demand_unit |-> f.Demand_unit, Product_Type |-> f.Product_Type,
   Temp_Min |-> f.Temp_Min, Temp_Max |-> f.Temp_Max,
   Ripeness_Date |-> f.Ripeness_Date, Expiration_Date |-> f.Expiration_Date,
   Packaging_Type |-> f.Packaging_Type,
   Contamination_Group |-> f.Contamination_Group,
   Handling_Notes |-> f.Handling_Notes, Urgency_Score |-> f.Urgency_Score,
   Time_Window_Start |-> f.Time_Window_Start,
   Time_Window_End |-> f.Time_Window_End]

\* the identifiers of all rows, the Depot_Flag filter forgotten
DepotIdsUnfiltered(df) == [k \in 1..Len(df) |-> df[k].Location_ID]

\* all_locations_df.loc[all_locations_df["Depot_Flag"] == "TRUE",
\*                      "Location_ID"].tolist()
DepotIds(df) ==
  LET idx == {k \in 1..Len(df) : df[k].Depot_Flag = "TRUE"}
      RECURSIVE Collect(_)
      Collect(k) ==
        IF k > Len(df) THEN <<>>
        ELSE (IF k \in idx THEN <<df[k].Location_ID>> ELSE <<>>) \o Collect(k + 1)
  IN  Collect(1)

\* an end hour drawn from the whole day
EndHourAnywhere(start_hour, g) == RandInt(0, HOURS_IN_DAY - 1, g)

\* end_hour = random.randint(start_hour, HOURS_IN_DAY - 1)
EndHour(start_hour, g) == RandInt(start_hour, HOURS_IN_DAY - 1, g)

\* one vehicle row drawn from generator state g, and the state after
MakeVehicle(i, ids, g) ==
  LET cap == RandInt(MIN_CAPACITY, MAX_CAPACITY, g)
      band == Choice(VEHICLE_BANDS, cap.g)
      start_hour == RandInt(0, HOURS_IN_DAY - 1, band.g)
      end_hour == EndHour(start_hour.v, start_hour.g)
      start_loc == Choice(ids, end_hour.g)
  IN  [g |-> start_loc.g,
       v |-> [Vehicle_ID |-> VehId(i),
              Capacity_boxes |-> cap.v,
              Temp_Min |-> band.v[1],
              Temp_Max |-> band.v[2],
              Start_Location |-> start_loc.v,
              Available_From |-> HourStr(start_hour.v),
              Available_Until |-> HourStr(end_hour.v)]]

\* ------------------------------------------------------------------ state
VARIABLES
  entry,         \* "main": main() runs; "vehicles": generate_synthetic_vehicles
                 \* is called on a table of the caller's
  seed,          \* the state the generator is seeded with before a run
  args,          \* num_records, lat, lon, radius of the command line
  now,           \* the clock
  t0,            \* the clock at the beginning
  run,           \* 1 for the first run, 2 for its repetition
  pc,            \* where the run is
  rng,           \* the state of the random generator
  rows,          \* rows of generate_synthetic_locations
  i,             \* its loop index
  started,       \* the clock when generate_synthetic_locations was entered
  reads,         \* the clock as read by _make_customer_fields, row by row
  df_loc,        \* the location table
  num_vehicles,  \* locals of generate_synthetic_vehicles
  depot_ids,
  vrows,
  vi,
  df_veh,        \* the vehicle table
  error,         \* the exception raised, "" for none
  written,       \* the CSV files written
  prev           \* what the first run produced, once it is repeated

vars == <<entry, seed, args, now, t0, run, pc, rng, rows, i, started, reads,
          df_loc, num_vehicles, depot_ids, vrows, vi, df_veh, error, written,
          prev>>

\* inputs
Places == {[lat |-> 399612346, lon |-> 0 - 829987654, radius |-> 25],
           [lat |-> 0 - 1234564, lon |-> 1799999996, radius |-> 0]}
StartInstants == {Ymd2Ord(2024, 2, 27) * TicksPerDay + (TicksPerDay - 1),
                  Ymd2Ord(2025, 12, 29) * TicksPerDay}

\* a table of n rows of which those at the positions in D are depots
Table(n, D) ==
  [k \in 1..n |-> [Location_ID |-> LocId(k),
                   Depot_Flag |-> IF k \in D THEN "TRUE" ELSE "FALSE"]]

NoRun == [df_loc |-> <<>>, df_veh |-> <<>>, reads |-> <<>>]

Init ==
  /\ seed \in 0..MaxSeed
  /\ rng = seed
  /\ run = 1
  /\ rows = <<>> /\ i = 0 /\ reads = <<>>
  /\ num_vehicles = 0 /\ depot_ids = <<>> /\ vrows = <<>> /\ vi = 0
  /\ df_veh = <<>> /\ error = "" /\ written = {} /\ prev = NoRun
  /\ \/ /\ entry = "main"
        /\ pc = "locations"
        /\ now \in StartInstants
        /\ \E n \in 0..MaxRecords, c \in Places :
             args = [num_records |-> n, lat |-> c.lat, lon |-> c.lon,
                     radius |-> c.radius]
        /\ df_loc = <<>>
     \/ /\ entry = "vehicles"
        /\ pc = "vehicles"
        /\ now = Ymd2Ord(2025, 12, 29) * TicksPerDay
        /\ args = [num_records |-> 0, lat |-> 0, lon |-> 0, radius |-> 0]
        /\ \E n \in 0..MaxRows :
             \E D \in SUBSET (1..n) :
               /\ Cardinality(D) <= MaxDepots
               /\ df_loc = Table(n, D)
  /\ t0 = now /\ started = now

\* time passes while the location table is built (nothing later reads the
\* clock)
Tick ==
  /\ pc \in {"locations", "loop"}
  /\ now - t0 < MaxTicks
  /\ now' = now + 1
  /\ UNCHANGED <<entry, seed, args, t0, run, pc, rng, rows, i, started, reads,
                 df_loc, num_vehicles, depot_ids, vrows, vi, df_veh, error,
                 written, prev>>

\* generate_synthetic_locations, up to the loop: the fixed depot
FixedDepot ==
  /\ pc = "locations"
  /\ LET depot_fields == MakeCustomerFields(rng, now)
     IN  /\ rows' = <<LocationRow(LocId(1), Round6(args.lat), Round6(args.lon),
                                  "TRUE", depot_fields.v)>>
         /\ rng' = depot_fields.g
  /\ started' = now
  /\ reads' = <<now>>
  /\ i' = 2
  /\ pc' = "loop"
  /\ UNCHANGED <<entry, seed, args, now, t0, run, df_loc, num_vehicles,
                 depot_ids, vrows, vi, df_veh, error, written, prev>>

\* one iteration of for i in range(2, num_records + 1)
NextLocation ==
  /\ pc = "loop"
  /\ i <= args.num_records
  /\ LET pt == RandomPointWithinRadius(args.lat, args.lon, args.radius, rng)
         is_depot == Random(pt.g)
         customer_data == MakeCustomerFields(is_depot.g, now)
     IN  /\ rows' = Append(rows,
                      LocationRow(LocId(i), pt.lat, pt.lon,
                                  IF IsDepot(is_depot.v) THEN "TRUE" ELSE "FALSE",
                                  customer_data.v))
         /\ rng' = customer_data.g
  /\ reads' = Append(reads, now)
  /\ i' = i + 1
  /\ UNCHANGED <<entry, seed, args, now, t0, run, pc, started, df_loc,
                 num_vehicles, depot_ids, vrows, vi, df_veh, error, written,
                 prev>>

\* return pd.DataFrame(rows); main writes the locations CSV
ReturnLocations ==
  /\ pc = "loop"
  /\ i > args.num_records
  /\ df_loc' = rows
  /\ written' = written \cup {"locations"}
  /\ pc' = "vehicles"
  /\ UNCHANGED <<entry, seed, args, now, t0, run, rng, rows, i, started, reads,
                 num_vehicles, depot_ids, vrows, vi, df_veh, error, prev>>

\* generate_synthetic_vehicles, up to the loop, when there is a depot
CountVehicles ==
  /\ pc = "vehicles"
  /\ DepotIds(df_loc) # <<>>
  /\ num_vehicles' = NumVehicles(Len(df_loc))
  /\ depot_ids' = DepotIds(df_loc)
  /\ vrows' = <<>>
  /\ vi' = 1
  /\ pc' = "vloop"
  /\ UNCHANGED <<entry, seed, args, now, t0, run, rng, rows, i, started, reads,
                 df_loc, df_veh, error, written, prev>>

\* no depot: an empty vehicle table is returned and nothing is raised
NoDepotReturnsEmpty ==
  /\ pc = "vehicles"
  /\ DepotIds(df_loc) = <<>>
  /\ num_vehicles' = NumVehicles(Len(df_loc))
  /\ depot_ids' = <<>>
  /\ pc' = "done"
  /\ UNCHANGED <<entry, seed, args, now, t0, run, rng, rows, i, started, reads,
                 df_loc, vrows, vi, df_veh, error, written, prev>>

\* generate_synthetic_vehicles, when there is no depot: raise ValueError
NoDepot ==
  /\ pc = "vehicles"
  /\ DepotIds(df_loc) = <<>>
  /\ num_vehicles' = NumVehicles(Len(df_loc))
  /\ depot_ids' = <<>>
  /\ error' = "ValueError"
  /\ pc' = "failed"
  /\ UNCHANGED <<entry, seed, args, now, t0, run, rng, rows, i, started, reads,
                 df_loc, vrows, vi, df_veh, written, prev>>

\* one iteration of for i in range(1, num_vehicles + 1)
NextVehicle ==
  /\ pc = "vloop"
  /\ vi <= num_vehicles
  /\ LET veh == MakeVehicle(vi, depot_ids, rng)
     IN  /\ vrows' = Append(vrows, veh.v)
         /\ rng' = veh.g
  /\ vi' = vi + 1
  /\ UNCHANGED <<entry, seed, args, now, t0, run, pc, rows, i, started, reads,
                 df_loc, num_vehicles, depot_ids, df_veh, error, written, prev>>

\* return pd.DataFrame(rows); main writes the vehicles CSV
ReturnVehicles ==
  /\ pc = "vloop"
  /\ vi > num_vehicles
  /\ df_veh' = vrows
  /\ written' = IF entry = "main" THEN written \cup {"vehicles"} ELSE written
  /\ pc' = "done"
  /\ UNCHANGED <<entry, seed, args, now, t0, run, rng, rows, i, started, reads,
                 df_loc, num_vehicles, depot_ids, vrows, vi, error, prev>>

\* main() is run once more with the same arguments, the generator seeded as
\* it was for the first run
Rerun ==
  /\ entry = "main"
  /\ pc = "done"
  /\ run = 1
  /\ prev' = [df_loc |-> df_loc, df_veh |-> df_veh, reads |-> reads]
  /\ run' = 2
  /\ rng' = seed
  /\ pc' = "locations"
  /\ rows' = <<>> /\ i' = 0 /\ reads' = <<>> /\ df_loc' = <<>>
  /\ num_vehicles' = 0 /\ depot_ids' = <<>> /\ vrows' = <<>> /\ vi' = 0
  /\ df_veh' = <<>> /\ written' = {}
  /\ UNCHANGED <<entry, seed, args, now, t0, started, error>>

Next ==
  \/ Tick
  \/ FixedDepot
  \/ NextLocation
  \/ ReturnLocations
  \/ CountVehicles
  \/ NoDepot
  \/ NextVehicle
  \/ ReturnVehicles
  \/ Rerun

Spec == Init /\ [][Next]_vars

TypeOK == pc \in {"locations", "loop", "vehicles", "vloop", "done", "failed"}

\* ------------------------------------------------------- reading the tables
DigitVal(c) == CHOOSE d \in 0..9 : Digit(d) = c

IsDigits(s) == \A k \in 1..Len(s) : \E d \in 0..9 : Digit(d) = s[k]

RECURSIVE ParseNat(_)
ParseNat(s) ==
  IF s = <<>> THEN 0
  ELSE 10 * ParseNat(SubSeq(s, 1, Len(s) - 1)) + DigitVal(s[Len(s)])

\* the ordinal of the day a "MM/DD/YYYY" string names
ParseDate(s) ==
  Ymd2Ord(ParseNat(SubSeq(s, 7, 10)), ParseNat(SubSeq(s, 1, 2)),
          ParseNat(SubSeq(s, 4, 5)))

IsHourStr(s) ==
  /\ Len(s) = 5
  /\ IsDigits(SubSeq(s, 1, 2))
  /\ SubSeq(s, 3, 5) = <<":", "0", "0">>

ParseHour(s) == ParseNat(SubSeq(s, 1, 2))

\* the calendar day of an instant
CalendarDay(t) == t \div TicksPerDay

\* the vehicle rows made so far and the vehicle table returned
AllVehicles == vrows \o df_veh

\* the location rows made so far, in main()
LocationRows == IF entry = "main" THEN rows ELSE <<>>

HasDepot(df) == \E j \in 1..Len(df) : df[j].Depot_Flag = "TRUE"

\* ------------------------------------------------------------------ claims

\* C1: whenever the location table has a row whose Depot_Flag is "TRUE",
\* every vehicle row made by generate_synthetic_vehicles has a
\* Start_Location that is the Location_ID of a row of that table whose
\* Depot_Flag is "TRUE"; so it is in every run of main().
C1_StartLocationIsDepot ==
  HasDepot(df_loc) =>
    \A k \in 1..Len(AllVehicles) :
      \E j \in 1..Len(df_loc) :
        /\ df_loc[j].Depot_Flag = "TRUE"
        /\ df_loc[j].Location_ID = AllVehicles[k].Start_Location

C1_Witness ==
  /\ entry = "main"
  /\ pc = "done"
  /\ \E j \in 1..Len(df_loc) : df_loc[j].Depot_Flag = "FALSE"
  /\ \E k \in 1..Len(df_veh) : df_veh[k].Start_Location # <<"L", "0", "0", "1">>

\* C2: with num_records >= 1 the first record of generate_synthetic_locations
\* has Location_ID "L001", Depot_Flag "TRUE" and the coordinates of the
\* centre rounded to 6 decimals (the nearest multiple of 1e-6), and the table
\* returned contains a depot.
C2_FirstRowIsCentreDepot ==
  (entry = "main" /\ args.num_records >= 1) =>
    /\ rows # <<>> =>
         /\ rows[1].Location_ID = <<"L", "0", "0", "1">>
         /\ rows[1].Depot_Flag = "TRUE"
         /\ 2 * (10 * rows[1].Latitude - args.lat) \in (0 - 10)..10
         /\ 2 * (10 * rows[1].Longitude - args.lon) \in (0 - 10)..10
    /\ pc \in {"vehicles", "vloop", "done", "failed"} =>
         /\ df_loc # <<>>
         /\ df_loc[1] = rows[1]
         /\ HasDepot(df_loc)

C2_Witness ==
  /\ entry = "main"
  /\ pc = "vehicles"
  /\ args.num_records >= 2
  /\ 10 * df_loc[1].Latitude > args.lat
  /\ \A j \in 2..Len(df_loc) : df_loc[j].Depot_Flag = "FALSE"

\* C3: for a location table of N rows that contains a depot,
\* generate_synthetic_vehicles returns max(1, ceil(0.30 * N)) rows, that is
\* max(1, ceil(3 * N / 10)).
C3_FleetSize ==
  (pc = "done" /\ HasDepot(df_loc)) =>
    LET N == Len(df_loc)
        c == (3 * N + 9) \div 10
    IN  Len(df_veh) = IF c < 1 THEN 1 ELSE c

C3_Witness ==
  /\ pc = "done"
  /\ Len(df_loc) = 10
  /\ Len(df_veh) = 3

\* C4: when no row of the location table is depot-flagged,
\* generate_synthetic_vehicles raises ValueError with no vehicle row made,
\* no vehicle table returned and the location table as it was.
C4_NoDepotRaises ==
  [][(pc = "vehicles" /\ ~HasDepot(df_loc)) =>
       /\ pc' = "failed"
       /\ error' = "ValueError"
       /\ vrows' = <<>> /\ df_veh' = <<>>
       /\ rng' = rng
       /\ df_loc' = df_loc]_vars

C4_Witness ==
  /\ pc = "failed"
  /\ error = "ValueError"
  /\ Len(df_loc) >= 2
  /\ vrows = <<>> /\ df_veh = <<>>

\* C5: in every location record the expiration date is 2 to 7 whole days
\* after the ripeness date, and the ripeness date is not before the day
\* generation began and 0 to 3 days after the day read for that record.
C5_DatesOrdered ==
  \A k \in 1..Len(LocationRows) :
    LET rip == ParseDate(rows[k].Ripeness_Date)
        exp == ParseDate(rows[k].Expiration_Date)
    IN  /\ exp - rip \in 2..7
        /\ rip >= CalendarDay(started)
        /\ rip - CalendarDay(reads[k]) \in 0..3

C5_Witness ==
  /\ entry = "main"
  /\ Len(rows) >= 2
  /\ CalendarDay(reads[Len(rows)]) > CalendarDay(started)
  /\ \E k \in 1..Len(rows) :
       ParseDate(rows[k].Expiration_Date) - ParseDate(rows[k].Ripeness_Date) = 2
  /\ \E k \in 1..Len(rows) :
       /\ ParseDate(rows[k].Ripeness_Date) = CalendarDay(reads[k])
       /\ SubSeq(rows[k].Ripeness_Date, 1, 2) # SubSeq(rows[k].Expiration_Date, 1, 2)

\* C7: in every vehicle record Available_From and Available_Until are whole
\* hours in [0, 23] and the second is not before the first.
C7_AvailabilityWindow ==
  \A k \in 1..Len(AllVehicles) :
    LET v == AllVehicles[k]
    IN  /\ IsHourStr(v.Available_From) /\ IsHourStr(v.Available_Until)
        /\ ParseHour(v.Available_From) \in 0..23
        /\ ParseHour(v.Available_Until) \in 0..23
        /\ ParseHour(v.Available_Until) >= ParseHour(v.Available_From)

C7_Witness ==
  /\ pc = "done"
  /\ \E k \in 1..Len(df_veh) :
       /\ ParseHour(df_veh[k].Available_Until) = ParseHour(df_veh[k].Available_From)
       /\ ParseHour(df_veh[k].Available_From) < 23
  /\ \E k \in 1..Len(df_veh) :
       ParseHour(df_veh[k].Available_Until) > ParseHour(df_veh[k].Available_From)

\* C8 as stated: two runs of main() with the same seed and the same
\* arguments produce the same location and vehicle tables.
C8_SameSeedSameOutput ==
  (run = 2 /\ pc = "done" /\ args.num_records >= 1) =>
    /\ df_loc = prev.df_loc
    /\ df_veh = prev.df_veh

\* C8 amended: two runs of main() with the same seed and the same arguments
\* in which _make_customer_fields reads the same calendar day for each
\* record produce the same location and vehicle tables.
C8_SameSeedSameDays ==
  (/\ run = 2 /\ pc = "done" /\ args.num_records >= 1
   /\ \A k \in 1..Len(reads) : CalendarDay(reads[k]) = CalendarDay(prev.reads[k])) =>
    /\ df_loc = prev.df_loc
    /\ df_veh = prev.df_veh

C8_Witness ==
  /\ run = 2 /\ pc = "done"
  /\ Len(df_loc) >= 3 /\ Len(df_veh) >= 1
  /\ \A k \in 1..Len(reads) : CalendarDay(reads[k]) = CalendarDay(prev.reads[k])
  /\ \E k \in 1..Len(reads) : reads[k] # prev.reads[k]
  /\ df_loc = prev.df_loc

\* rounding a draw gives 1.00 exactly when the draw is at least 0.995
OneIffAtLeast995 ==
  \A u \in 0..(RandRange - 1) : Urgency(u) = 100 <=> 1000 * u >= 995 * RandRange

\* C9 as stated: the urgency score of every location record is one of
\* 0.00, 0.01, ..., 0.99.
C9_UrgencyBelowOne ==
  \A k \in 1..Len(LocationRows) : rows[k].Urgency_Score \in 0..99

\* C9 amended: the urgency score of every location record is one of
\* 0.00, 0.01, ..., 1.00, and rounding a draw gives 1.00 exactly when the
\* draw is at least 0.995.
C9_UrgencyUpToOne ==
  /\ \A k \in 1..Len(LocationRows) : rows[k].Urgency_Score \in 0..100
  /\ OneIffAtLeast995

C9_Witness ==
  /\ entry = "main"
  /\ \E k \in 1..Len(rows) : rows[k].Urgency_Score = 100

\* C10: with num_records >= 1, generate_synthetic_locations returns
\* num_records records, the k-th with identifier "L" and k zero-padded to 3
\* digits, pairwise distinct; with num_records = 1 the generator has been
\* used for the attributes of the depot only.
C10_RecordsAndIds ==
  (entry = "main" /\ args.num_records >= 1) =>
    /\ \A k \in 1..Len(rows) :
         /\ Len(rows[k].Location_ID) = 4
         /\ rows[k].Location_ID[1] = "L"
         /\ IsDigits(Tail(rows[k].Location_ID))
         /\ ParseNat(Tail(rows[k].Location_ID)) = k
    /\ \A k, j \in 1..Len(rows) :
         rows[k].Location_ID = rows[j].Location_ID => k = j
    /\ pc \in {"vehicles", "vloop", "done", "failed"} =>
         /\ df_loc = rows
         /\ Len(df_loc) = args.num_records
    /\ (pc = "vehicles" /\ args.num_records = 1) =>
         rng = MakeCustomerFields(seed, reads[1]).g

C10_Witness ==
  /\ entry = "main"
  /\ pc = "vehicles"
  /\ args.num_records = MaxRecords
  /\ Len(df_loc) = MaxRecords

====
